---- MODULE Spec2Model ----
(***************************************************************************)
(* find-untracked-files: the tree walker walkfd and its driver main, from  *)
(* the option loop and the index to the exit (find-untracked-files.c), and *)
(* the two earlier walkers named walkdir: the readdir-based one with its   *)
(* lstat fallback getfiletype, and the one that opens its own descriptor   *)
(* with openat.                                                            *)
(*                                                                         *)
(* C strings are sequences of one-character strings; the shared path       *)
(* buffer is a sequence of PATH_MAX bytes written by StrCpy and read up to *)
(* the first NUL.  The file system is a function from canonical absolute   *)
(* paths to nodes; open, openat, getdents, lstat and close are modelled by *)
(* what they return and by the errno they leave.                           *)
(***************************************************************************)
EXTENDS Integers, Sequences, FiniteSets, TLC

\* ------------------------------------------------------------------ bounds

\* Largest number of files below the directory /r in the generated trees.
MaxNodes == 2

\* Largest number of system calls that fail, or entries that come without a
\* type, in one run.
MaxFaults == 1

\* ------------------------------------------------------- program constants

\* <dirent.h> d_type values.
DT_UNKNOWN == 0
DT_FIFO == 1
DT_CHR == 2
DT_DIR == 4
DT_BLK == 6
DT_REG == 8
DT_LNK == 10
DT_SOCK == 12

\* <errno.h> values.
ENOENT == 2
EIO == 5
EBADF == 9
EACCES == 13
ENOTDIR == 20
EMFILE == 24

\* <stdlib.h> exit statuses.
EXIT_SUCCESS == 0
EXIT_FAILURE == 1

\* Size of the path buffer main allocates.  The real value is 4096; the
\* model's names are one or two bytes long, and the buffer is scaled with them.
PATH_MAX == 16

\* ----------------------------------------------------------------- strings

NUL == "NUL"
\* A byte of malloc'ed memory that was never written.
Junk == "?"

Slash == <<"/">>

\* strlen(buf + off): bytes before the first NUL at or after offset off.
StrLen(buf, off) ==
  LET ends == {i \in off + 1 .. Len(buf) : buf[i] = NUL}
  IN  IF ends = {} THEN Len(buf) - off
      ELSE (CHOOSE i \in ends : \A j \in ends : i <= j) - 1 - off

\* The C string that starts at buf + off.
StrAt(buf, off) == SubSeq(buf, off + 1, off + StrLen(buf, off))

\* strcpy(buf + off, s): the bytes of s and a terminating NUL; the bytes after
\* them are kept.  A copy that ends beyond the buffer writes past its end.
StrCpy(buf, off, s) ==
  LET n == IF off + Len(s) + 1 > Len(buf) THEN off + Len(s) + 1 ELSE Len(buf)
  IN  [i \in 1 .. n |->
         IF i <= off THEN (IF i <= Len(buf) THEN buf[i] ELSE Junk)
         ELSE IF i <= off + Len(s) THEN s[i - off]
         ELSE IF i = off + Len(s) + 1 THEN NUL
         ELSE buf[i]]

\* malloc(PATH_MAX)
Malloc == [i \in 1 .. PATH_MAX |-> Junk]

IsPrefix(p, s) == Len(p) <= Len(s) /\ SubSeq(s, 1, Len(p)) = p

\* strncmp(a, b, n) = 0 for NUL-terminated strings a and b.
StrNCmpEq(a, b, n) ==
  \A i \in 1 .. n :
    LET ca == IF i <= Len(a) THEN a[i] ELSE NUL
        cb == IF i <= Len(b) THEN b[i] ELSE NUL
    IN  \/ ca = cb
        \/ \E j \in 1 .. i - 1 : j > Len(a) /\ j > Len(b)

\* ------------------------------------------------------------- file system

RECURSIVE Squeeze(_)
Squeeze(s) ==
  IF Len(s) < 2 THEN s
  ELSE IF s[1] = "/" /\ s[2] = "/" THEN Squeeze(Tail(s))
  ELSE <<s[1]>> \o Squeeze(Tail(s))

\* Path resolution: repeated and trailing separators do not matter.
Canon(s) ==
  LET q == Squeeze(s)
  IN  IF Len(q) > 1 /\ q[Len(q)] = "/" THEN SubSeq(q, 1, Len(q) - 1) ELSE q

Join(dir, name) == IF dir = Slash THEN dir \o name ELSE dir \o Slash \o name

LastSlash(p) == CHOOSE i \in 1 .. Len(p) : p[i] = "/" /\ \A j \in i + 1 .. Len(p) : p[j] # "/"

BaseName(p) == SubSeq(p, LastSlash(p) + 1, Len(p))

Parent(p) == IF LastSlash(p) = 1 THEN Slash ELSE SubSeq(p, 1, LastSlash(p) - 1)

\* The names a directory entry below /r can have.
Names == {<<"a">>, <<"b", "b">>}

DirR == <<"/", "r">>

\* The file types a file below /r can have (st_mode & S_IFMT, written as the
\* d_type value it maps to).
NodeTypes == {DT_REG, DT_LNK, DT_DIR, DT_FIFO}

\* The file system before anything is created below /r: path |-> file type.
BaseFs == (Slash :> DT_DIR) @@ (DirR :> DT_DIR)

\* p lies below the directory dir.
IsUnder(p, dir) == p # dir /\ IsPrefix(Join(dir, <<>>), p)

\* Where a file can be added to f.
Addable(f) ==
  {Join(d, n) : d \in {q \in DOMAIN f : f[q] = DT_DIR /\ q # Slash}, n \in Names} \ DOMAIN f

RECURSIVE Grow(_, _)
Grow(S, k) ==
  IF k = 0 THEN S
  ELSE Grow(S \cup UNION {{(p :> t) @@ f : p \in Addable(f), t \in NodeTypes} : f \in S}, k - 1)

\* The trees with at most MaxNodes files below /r.
Trees == Grow({BaseFs}, MaxNodes)

\* Two larger trees: a directory between two files with a directory below it,
\* and two sibling directories.
DeepTree ==
  (<<"/", "r", "/", "a">> :> DT_REG)
    @@ (<<"/", "r", "/", "b", "b">> :> DT_DIR)
    @@ (<<"/", "r", "/", "b", "b", "/", "a">> :> DT_DIR)
    @@ (<<"/", "r", "/", "b", "b", "/", "b", "b">> :> DT_LNK)
    @@ (<<"/", "r", "/", "b", "b", "/", "a", "/", "a">> :> DT_REG)
    @@ BaseFs

WideTree ==
  (<<"/", "r", "/", "a">> :> DT_DIR)
    @@ (<<"/", "r", "/", "b", "b">> :> DT_DIR)
    @@ (<<"/", "r", "/", "a", "/", "b", "b">> :> DT_REG)
    @@ (<<"/", "r", "/", "b", "b", "/", "a">> :> DT_REG)
    @@ BaseFs

\* A character device beside a directory that holds a block device and a
\* socket.
DeviceTree ==
  (<<"/", "r", "/", "a">> :> DT_CHR)
    @@ (<<"/", "r", "/", "b", "b">> :> DT_DIR)
    @@ (<<"/", "r", "/", "b", "b", "/", "a">> :> DT_BLK)
    @@ (<<"/", "r", "/", "b", "b", "/", "b", "b">> :> DT_SOCK)
    @@ BaseFs

\* A directory between two files of its parent, with two files in it.
OrderTree ==
  (<<"/", "r", "/", "a">> :> DT_REG)
    @@ (<<"/", "r", "/", "b", "b">> :> DT_DIR)
    @@ (<<"/", "r", "/", "c">> :> DT_REG)
    @@ (<<"/", "r", "/", "b", "b", "/", "a">> :> DT_REG)
    @@ (<<"/", "r", "/", "b", "b", "/", "c">> :> DT_REG)
    @@ BaseFs

\* What a symbolic link resolves to when it is opened: a link named l points
\* to the directory /r; any other link points to a file.
LinkName == <<"l">>

Resolve(f, p) ==
  IF p \in DOMAIN f /\ f[p] = DT_LNK /\ BaseName(p) = LinkName THEN DirR ELSE p

\* A directory with symbolic links to the directory /r, which is the parent
\* of one link and the grandparent of the other.
LoopDir == <<"/", "r", "/", "d">>

LoopLink == Join(LoopDir, LinkName)

LoopTree ==
  (Join(DirR, LinkName) :> DT_LNK)
    @@ (LoopDir :> DT_DIR)
    @@ (LoopLink :> DT_LNK)
    @@ (Join(LoopDir, <<"a">>) :> DT_REG)
    @@ BaseFs

\* ------------------------------------------------------------------- state

VARIABLES
  optv,        \* main: the options of argv, in the order getopt_long meets them
  localdb,     \* the package database: one list of file names per package
  root,        \* main: the installation root (option -r)
  args,        \* main: argv[optind .. argc-1], the search paths
  nosymlinks,  \* main: option -n
  silent,      \* main: option -q
  hs,          \* the set of paths known to the package database
  fs,          \* the file system: canonical path |-> file type
  argi,        \* main: the index i of the search path being handled
  pc,          \* main: "getopt", "index", "args", "open", "walk", "done"
  pathbuf,     \* main: the buffer path points to
  mainfd,      \* main: fd
  status,      \* the exit status of the process (-1 while it runs)
  stack,       \* the activations of walkfd, the innermost last
  ret,         \* the value the last walkfd that returned has returned
  fdtab,       \* the open descriptors: fd |-> the directory it is open on
  errno,
  out,         \* standard output: a sequence of [walk, node, line]
  errs,        \* standard error: a sequence of [kind, path]
  queries,     \* history: the membership queries made, [walk, node, str]
  denied,      \* history: the directories whose open failed with EACCES,
               \* [walk, node, at: the number of queries made before]
  fatal,       \* history: the failures, [walk, kind, node, at, depth]
  nfaults      \* history: the number of faults injected so far

vars == <<optv, localdb, root, args, nosymlinks, silent, hs, fs, argi, pc, pathbuf, mainfd, status,
          stack, ret, fdtab, errno, out, errs, queries, denied, fatal, nfaults>>

\* What nothing changes once main has parsed the options and built the index.
inputs == <<optv, localdb, root, args, nosymlinks, silent, hs, fs>>

\* ------------------------------------------------------------ system calls

Symlinks == ~nosymlinks

\* alpm_path = path + strlen(root): the offset of alpm_path in the buffer.
AlpmOff == Len(root)

\* The lowest descriptor that is not open.
NewFd ==
  CHOOSE n \in 3 .. 3 + Cardinality(DOMAIN fdtab) :
    n \notin DOMAIN fdtab /\ \A m \in 3 .. n - 1 : m \in DOMAIN fdtab

\* open(p, O_DIRECTORY | O_RDONLY) and openat(fd, name, ...) with p the path
\* they name: the descriptor (-1: failure) and the errno of a failure.  A
\* directory that exists may still fail to open: permission denied, or no
\* descriptor left.
OpenOutcomes(p) ==
  IF p = <<>> \/ Canon(p) \notin DOMAIN fs THEN {[fd |-> -1, err |-> ENOENT]}
  ELSE IF fs[Resolve(fs, Canon(p))] # DT_DIR THEN {[fd |-> -1, err |-> ENOTDIR]}
  ELSE {[fd |-> NewFd, err |-> 0]}
         \cup (IF nfaults < MaxFaults
               THEN {[fd |-> -1, err |-> EACCES], [fd |-> -1, err |-> EMFILE]}
               ELSE {})

\* The record of a failure: where it happened, and how many queries had been
\* made, how many lines written and how many activations were on the stack
\* when it happened.
FatalRec(kind, node) ==
  [walk |-> argi, kind |-> kind, node |-> node, at |-> Len(queries), outs |-> Len(out),
   depth |-> Len(stack)]

\* errno after open returned o.
OpenErrno(o) == IF o.fd = -1 THEN o.err ELSE errno

\* The descriptor table and the history after open returned o for the
\* directory p.
Opened(o, p) ==
  /\ fdtab' = IF o.fd = -1 THEN fdtab ELSE (o.fd :> Resolve(fs, Canon(p))) @@ fdtab
  /\ nfaults' = IF o.err \in {EACCES, EMFILE} THEN nfaults + 1 ELSE nfaults
  /\ denied' = IF o.err = EACCES
               THEN denied \cup {[walk |-> argi, node |-> Canon(p), at |-> Len(queries)]}
               ELSE denied
  /\ fatal' = IF o.fd = -1 /\ o.err # EACCES
              THEN Append(fatal, FatalRec("open", Canon(p)))
              ELSE fatal

\* close(fd): the descriptor table and errno after it.
CloseTab(fd) == [x \in DOMAIN fdtab \ {fd} |-> fdtab[x]]

CloseErrno(fd) == IF fd \in DOMAIN fdtab THEN errno ELSE EBADF

\* The entries getdents returns for the directory dir: "." and "..", and one
\* entry per file in it, each with its d_type.
Dot == <<".">>

DotDot == <<".", ".">>

Entries(dir) ==
  {[d_name |-> Dot, d_type |-> DT_DIR], [d_name |-> DotDot, d_type |-> DT_DIR]}
    \cup {[d_name |-> BaseName(p), d_type |-> fs[p]] : p \in {q \in DOMAIN fs : q # Slash /\ Parent(q) = dir}}

\* The d_type byte of an entry: the file's type, or, on a file system that
\* does not supply it, DT_UNKNOWN.
DTypes(e) == {e.d_type} \cup (IF nfaults < MaxFaults THEN {DT_UNKNOWN} ELSE {})

\* ----------------------------------------------------------------- variants

\* Decisions the walker could take wrongly; each property below that holds of
\* the walker fails for one of them.

\* Symbolic links are never looked up.
RegularOnly(type, symlinks) == type = DT_REG

\* Symbolic links are looked up whatever the option says.
AnyLink(type, symlinks) == type = DT_REG \/ type = DT_LNK

\* No failure of open is forgiven.
NeverBenign(e) == FALSE

\* The error of a recursive call is dropped.
NeverPropagates(wd_err) == FALSE

\* The descriptor of a subdirectory is closed only if its walk succeeded.
ClosesOnSuccess(wd_err) == wd_err = 0

\* The descriptor of a subdirectory is never closed.
NeverCloses(wd_err) == FALSE

\* A line is put before the lines written so far.
EmitFirst(lines, l) == <<l>> \o lines

\* The separator and the name are copied without the terminating NUL.
AppendNoTerm(buf, off, name) ==
  LET s == Slash \o name
  IN  [i \in 1 .. Len(buf) |-> IF i > off /\ i <= off + Len(s) THEN s[i - off] ELSE buf[i]]

\* The separator and the name are put at the end of the string in the buffer,
\* not at the offset of the directory.
AppendAtEnd(buf, off, name) ==
  StrCpy(StrCpy(buf, StrLen(buf, 0), Slash), StrLen(buf, 0) + 1, name)

\* The permission-denied diagnostic is written whatever the option says.
AlwaysDiagnoses(quiet) == TRUE

\* Everything that is not a directory is taken for a file.
NotDirectory(type, symlinks) == type # DT_DIR /\ (type # DT_LNK \/ symlinks)

\* Only a positive error of a recursive call is passed on.
PropagatesPositive(wd_err) == wd_err > 0

\* main goes on to the next search path whatever the walk returned.
NeverFailed(walkerr) == FALSE

\* The separator is written over the last byte of the directory's path.
AppendOverLast(buf, off, name) == StrCpy(buf, off - 1, Slash \o name)

\* A symbolic link is entered like a directory.
FollowsLinks(type) == type = DT_DIR \/ type = DT_LNK

\* Inserting a name that is in the set takes it out.
ToggleAdd(set, name) == IF name \in set THEN set \ {name} ELSE set \cup {name}

\* ------------------------------------------------------------------ walkfd

Top == stack[Len(stack)]

Frame(fd) ==
  [fd |-> fd, path_length |-> 0, buf |-> {}, eof |-> FALSE, st |-> "entry", nextfd |-> -1]

\* return v
Return(v) == stack' = SubSeq(stack, 1, Len(stack) - 1) /\ ret' = v

SetTop(f) == stack' = [stack EXCEPT ![Len(stack)] = f]

\* walkfd, `if (errno == EACCES)`: a failed open that is not fatal.
OpenErrorIsBenign(e) == e = EACCES

\* walkfd, `if (!silent)`: the permission-denied diagnostic is written.
Diagnoses(quiet) == ~quiet

\* walkfd, `if(fd == -1) ... size_t path_length = strlen(alpm_path)`
WalkEnter ==
  /\ pc = "walk" /\ stack # <<>> /\ Top.st = "entry"
  /\ IF Top.fd = -1
     THEN IF OpenErrorIsBenign(errno)
          THEN /\ errs' = IF Diagnoses(silent)
                          THEN Append(errs, [kind |-> "denied",
                                             path |-> root \o StrAt(pathbuf, AlpmOff)])
                          ELSE errs
               /\ errno' = 0
               /\ Return(0)
          ELSE /\ errs' = Append(errs, [kind |-> "open",
                                        path |-> root \o StrAt(pathbuf, AlpmOff)])
               /\ errno' = errno
               /\ Return(-1)
     ELSE /\ SetTop([Top EXCEPT !.path_length = StrLen(pathbuf, AlpmOff),
                                !.st = "getdents"])
          /\ UNCHANGED <<errs, errno, ret>>
  /\ UNCHANGED <<inputs, argi, pc, pathbuf, mainfd, status, fdtab, out, queries,
                 denied, fatal, nfaults>>

\* walkfd, `nread = syscall(SYS_getdents, fd, buf, 8192)` and the two tests of
\* nread.  One call returns all the entries of the directory, the next 0.
WalkGetdents ==
  /\ pc = "walk" /\ stack # <<>> /\ Top.st = "getdents"
  /\ \/ /\ nfaults < MaxFaults
        /\ nfaults' = nfaults + 1
        /\ errno' = EIO
        /\ errs' = Append(errs, [kind |-> "read", path |-> <<>>])
        /\ fatal' = Append(fatal, FatalRec("read", fdtab[Top.fd]))
        /\ Return(-1)
     \/ /\ Top.eof
        /\ Return(0)
        /\ UNCHANGED <<nfaults, errno, errs, fatal>>
     \/ /\ ~Top.eof
        /\ SetTop([Top EXCEPT !.buf = Entries(fdtab[Top.fd]), !.eof = TRUE, !.st = "loop"])
        /\ UNCHANGED <<nfaults, errno, errs, fatal, ret>>
  /\ UNCHANGED <<inputs, argi, pc, pathbuf, mainfd, status, fdtab, out, queries, denied>>

\* walkfd, `strcpy(alpm_path + path_length, "/"); strcpy(alpm_path +
\* (path_length + 1), entry->d_name)`
AppendName(buf, off, name) == StrCpy(StrCpy(buf, off, Slash), off + 1, name)

\* walkfd, `!strcmp(entry->d_name, ".") || !strcmp(entry->d_name, "..")`
IsDotEntry(name) == name = Dot \/ name = DotDot

\* walkfd, `type == DT_REG || (type == DT_LNK && symlinks)`
IsReportable(type, symlinks) == type = DT_REG \/ (type = DT_LNK /\ symlinks)

\* walkfd, `!g_hash_table_contains(hs, alpm_path)`
IsUntracked(set, path) == path \notin set

\* walkfd, `printf("%s%s\n", root, alpm_path)`: standard output after the line l.
Emit(lines, l) == Append(lines, l)

\* walkfd, `entry = (struct linux_dirent *) (buf + bpos)`: the entries that can
\* be the next one of the buffer.  The kernel emits "." and ".." first and the
\* files in an order of its choice.
NextEntries(buf) ==
  LET dots == {e \in buf : e.d_name = Dot}
      dotdots == {e \in buf : e.d_name = DotDot}
  IN  IF dots # {} THEN dots ELSE IF dotdots # {} THEN dotdots ELSE buf

\* walkfd, `bpos += entry->d_reclen`: the entries of the buffer still to come.
Remaining(buf, e) == buf \ {e}

\* walkfd, `if (type == DT_DIR)`: the entry is a directory to recurse into.
Descends(type) == type = DT_DIR

\* walkfd, one turn of `for (long bpos = 0; bpos < nread;)`.
WalkEntry ==
  /\ pc = "walk" /\ stack # <<>> /\ Top.st = "loop"
  /\ \E e \in NextEntries(Top.buf) : \E type \in DTypes(e) :
       LET buf1 == AppendName(pathbuf, AlpmOff + Top.path_length, e.d_name)
           rel == StrAt(buf1, AlpmOff)
           node == Join(fdtab[Top.fd], e.d_name)
           rest == Remaining(Top.buf, e)
           cont == [Top EXCEPT !.buf = rest, !.st = IF rest = {} THEN "getdents" ELSE "loop"]
       IN
       /\ pathbuf' = buf1
       /\ IF type = DT_UNKNOWN
          THEN /\ errs' = Append(errs, [kind |-> "unknown", path |-> root \o rel])
               /\ fatal' = Append(fatal, FatalRec("unknown", node))
               /\ nfaults' = nfaults + 1
               /\ Return(-1)
               /\ UNCHANGED <<fdtab, errno, out, queries, denied>>
          ELSE IF Descends(type)
          THEN IF IsDotEntry(e.d_name)
               THEN /\ SetTop(cont)
                    /\ UNCHANGED <<fdtab, errno, out, errs, queries, denied, fatal, nfaults, ret>>
               ELSE \E o \in OpenOutcomes(node) :
                      /\ Opened(o, node)
                      /\ errno' = OpenErrno(o)
                      /\ stack' = Append([stack EXCEPT ![Len(stack)] =
                                            [cont EXCEPT !.st = "close", !.nextfd = o.fd]],
                                         Frame(o.fd))
                      /\ UNCHANGED <<out, errs, queries, ret>>
          ELSE IF IsReportable(type, Symlinks)
          THEN /\ queries' = Append(queries, [walk |-> argi, node |-> node, str |-> rel])
               /\ out' = IF IsUntracked(hs, rel)
                         THEN Emit(out, [walk |-> argi, node |-> node, line |-> root \o rel])
                         ELSE out
               /\ SetTop(cont)
               /\ UNCHANGED <<fdtab, errno, errs, denied, fatal, nfaults, ret>>
          ELSE /\ SetTop(cont)
               /\ UNCHANGED <<fdtab, errno, out, errs, queries, denied, fatal, nfaults, ret>>
  /\ UNCHANGED <<inputs, argi, pc, mainfd, status>>

\* walkfd, `close(nextfd)` after the recursive call: whether it is reached
\* when the call returned wd_err.
ClosesAfter(wd_err) == TRUE

\* walkfd, `if (wd_err)`: the error of the recursive call is passed on.
Propagates(wd_err) == wd_err # 0

\* walkfd, `close(nextfd); if (wd_err) { return wd_err; }`: the activation
\* whose recursive call has returned.
WalkClose ==
  /\ pc = "walk" /\ stack # <<>> /\ Top.st = "close"
  /\ IF ClosesAfter(ret)
     THEN fdtab' = CloseTab(Top.nextfd) /\ errno' = CloseErrno(Top.nextfd)
     ELSE UNCHANGED <<fdtab, errno>>
  /\ IF Propagates(ret)
     THEN Return(ret)
     ELSE /\ SetTop([Top EXCEPT !.st = IF Top.buf = {} THEN "getdents" ELSE "loop",
                                !.nextfd = -1])
          /\ UNCHANGED ret
  /\ UNCHANGED <<inputs, argi, pc, pathbuf, mainfd, status, out, errs, queries,
                 denied, fatal, nfaults>>

\* -------------------------------------------------------------------- main

\* main, `getopt_long(argc, argv, "r:d:nqh", long_options, &option_index)`: the
\* option characters it knows.
OptString == {"r", "d", "n", "q", "h"}

\* An element of argv that is an option: its character and its argument.
Option(c, arg) == [c |-> c, arg |-> arg]

Flag(c) == Option(c, <<>>)

\* What getopt_long returns for the option o: its character, or '?' for a
\* character that is not in the option string.
GetoptLong(o) == IF o.c \in OptString THEN o.c ELSE "?"

\* main, `while (1) { ... switch (opt) ... }`: the variables of main after the
\* options opts, starting from st; exit is the status of an exit taken in the
\* loop, -1 if there was none.
RECURSIVE ParseOptions(_, _)
ParseOptions(opts, st) ==
  IF opts = <<>> THEN st
  ELSE LET opt == GetoptLong(Head(opts))
       IN  IF opt = "r" THEN ParseOptions(Tail(opts), [st EXCEPT !.root = Head(opts).arg])
           ELSE IF opt = "d" THEN ParseOptions(Tail(opts), st)
           ELSE IF opt = "n" THEN ParseOptions(Tail(opts), [st EXCEPT !.nosymlinks = TRUE])
           ELSE IF opt = "q" THEN ParseOptions(Tail(opts), [st EXCEPT !.silent = TRUE])
           ELSE IF opt = "h" THEN [st EXCEPT !.exit = EXIT_SUCCESS]
           ELSE [st EXCEPT !.exit = EXIT_FAILURE, !.unknown = Head(opts).c]

\* main, from its first line to `if (optind >= argc)`: the defaults, the
\* option loop and the test for a missing directory.
MainGetopt ==
  /\ pc = "getopt"
  /\ LET st == ParseOptions(optv, [root |-> Slash, nosymlinks |-> FALSE, silent |-> FALSE,
                                   exit |-> -1, unknown |-> ""])
     IN  /\ root' = st.root
         /\ nosymlinks' = st.nosymlinks
         /\ silent' = st.silent
         /\ IF st.exit # -1
            THEN /\ errs' = IF st.exit = EXIT_FAILURE
                            THEN Append(errs, [kind |-> "usage", path |-> <<st.unknown>>])
                            ELSE errs
                 /\ status' = st.exit
                 /\ pc' = "done"
            ELSE IF args = <<>>
            THEN /\ errs' = Append(errs, [kind |-> "nodir", path |-> <<>>])
                 /\ status' = EXIT_FAILURE
                 /\ pc' = "done"
            ELSE /\ pc' = "index"
                 /\ UNCHANGED <<errs, status>>
  /\ UNCHANGED <<optv, localdb, args, hs, fs, argi, pathbuf, mainfd, stack, ret, fdtab,
                 errno, out, queries, denied, fatal, nfaults>>

\* main, `g_hash_table_add(hs, file->name)`: the set after the insertion.
HashAdd(set, name) == set \cup {name}

\* main, `for(size_t i = 0; i < filelist->count; i++)`: the set after the
\* names of one package.
RECURSIVE AddFiles(_, _)
AddFiles(set, filelist) ==
  IF filelist = <<>> THEN set
  ELSE AddFiles(HashAdd(set, Head(filelist)), Tail(filelist))

\* main, `for (alpm_list_t* lp = pkgs; lp; lp = alpm_list_next(lp))`: the set
\* after the packages pkgs.
RECURSIVE AddPackages(_, _)
AddPackages(set, pkgs) ==
  IF pkgs = <<>> THEN set
  ELSE AddPackages(AddFiles(set, Head(pkgs)), Tail(pkgs))

\* main, `GHashTable* hs = g_hash_table_new(...)` to the end of the loop over
\* the local packages; errno is reset on the way.
MainIndex ==
  /\ pc = "index"
  /\ hs' = AddPackages({}, localdb)
  /\ errno' = 0
  /\ pc' = "args"
  /\ UNCHANGED <<optv, localdb, root, args, nosymlinks, silent, fs, argi, pathbuf, mainfd,
                 status, stack, ret, fdtab, out, errs, queries, denied, fatal, nfaults>>

\* main, `if (path[strlen(path)-1] == '/') path[strlen(path)-1] = '\0'`
StripSlash(buf) ==
  LET n == StrLen(buf, 0)
  IN  IF n > 0 /\ buf[n] = "/" THEN [buf EXCEPT ![n] = NUL] ELSE buf

\* main, `strncmp(root, path, strlen(root))` is 0: path passes the sanity check.
InRoot(r, path) == StrNCmpEq(r, path, Len(r))

\* main, the head of `for (size_t i = optind; i < argc; i++)` to the sanity
\* check: copy the argument, strip one trailing slash, reject a path outside root.
MainArg ==
  /\ pc = "args" /\ argi <= Len(args)
  /\ LET buf1 == StripSlash(StrCpy(Malloc, 0, args[argi]))
     IN  IF ~InRoot(root, StrAt(buf1, 0))
         THEN /\ errs' = Append(errs, [kind |-> "notinroot", path |-> StrAt(buf1, 0)])
              /\ status' = EXIT_FAILURE
              /\ pc' = "done"
              /\ UNCHANGED pathbuf
         ELSE /\ pathbuf' = buf1
              /\ pc' = "open"
              /\ UNCHANGED <<errs, status>>
  /\ UNCHANGED <<inputs, argi, mainfd, stack, ret, fdtab, errno, out, queries,
                 denied, fatal, nfaults>>

\* main, `int fd = open(path, O_DIRECTORY | O_RDONLY); int walkerr =
\* walkfd(fd, root, alpm_path, !nosymlinks, silent, hs)`: to the call.
MainOpen ==
  /\ pc = "open"
  /\ \E o \in OpenOutcomes(StrAt(pathbuf, 0)) :
       /\ Opened(o, StrAt(pathbuf, 0))
       /\ errno' = OpenErrno(o)
       /\ mainfd' = o.fd
       /\ stack' = <<Frame(o.fd)>>
  /\ pc' = "walk"
  /\ UNCHANGED <<inputs, argi, pathbuf, status, ret, out, errs, queries>>

\* main, `if (walkerr)`
WalkFailed(walkerr) == walkerr # 0

\* main, `close(fd); if (walkerr) { ... exit(EXIT_FAILURE); } free(path);`
MainClose ==
  /\ pc = "walk" /\ stack = <<>>
  /\ fdtab' = CloseTab(mainfd)
  /\ errno' = CloseErrno(mainfd)
  /\ IF WalkFailed(ret)
     THEN /\ errs' = IF errno' # 0 THEN Append(errs, [kind |-> "errno", path |-> <<>>]) ELSE errs
          /\ status' = EXIT_FAILURE
          /\ pc' = "done"
          /\ UNCHANGED argi
     ELSE /\ argi' = argi + 1
          /\ pc' = "args"
          /\ UNCHANGED <<errs, status>>
  /\ UNCHANGED <<inputs, pathbuf, mainfd, stack, ret, out, queries, denied, fatal, nfaults>>

\* main, after the loop: release everything and exit(EXIT_SUCCESS).
MainDone ==
  /\ pc = "args" /\ argi > Len(args)
  /\ status' = EXIT_SUCCESS
  /\ pc' = "done"
  /\ UNCHANGED <<inputs, argi, pathbuf, mainfd, stack, ret, fdtab, errno, out, errs,
                 queries, denied, fatal, nfaults>>

Next ==
  \/ MainArg
  \/ MainOpen
  \/ WalkEnter
  \/ WalkGetdents
  \/ WalkEntry
  \/ WalkClose
  \/ MainClose
  \/ MainDone

\* walkfd has written past the end of the buffer main allocated: undefined
\* behaviour.  The bytes land in the memory behind the buffer and the run goes
\* on (the other actions), or the process is killed (status 128 + SIGSEGV).
HeapOverflow ==
  /\ pc = "walk" /\ Len(pathbuf) > PATH_MAX
  /\ pc' = "done"
  /\ status' = 128 + 11
  /\ UNCHANGED <<inputs, argi, pathbuf, mainfd, stack, ret, fdtab, errno, out, errs,
                 queries, denied, fatal, nfaults>>

\* main and walkfd on a tree whose paths can outgrow the buffer.
NextLong ==
  \/ Next
  \/ HeapOverflow

\* main from its first line.
NextMain ==
  \/ MainGetopt
  \/ MainIndex
  \/ Next

\* ----------------------------------------- walkdir (the readdir variant)

\* Conversion of an int to unsigned char.
ToUChar(n) == n % 256

\* lstat(fullpath, &sb) for the entry e: the file type the mode bits give and
\* errno 0, or a failure (the directory cannot be searched, or the file is
\* gone).
LstatOutcomes(e) == {[st_mode |-> e.d_type, err |-> 0], [st_mode |-> 0, err |-> EACCES]}

\* getfiletype: -1 when lstat failed, else the d_type value of the file type,
\* DT_UNKNOWN for a type it does not know.
GetFileType(sb) ==
  IF sb.err # 0 THEN -1
  ELSE IF sb.st_mode \in {DT_REG, DT_DIR, DT_LNK, DT_BLK, DT_CHR, DT_FIFO, DT_SOCK}
  THEN sb.st_mode
  ELSE DT_UNKNOWN

\* entry->d_type as readdir delivers it: the type of the file, or DT_UNKNOWN
\* on a file system that does not supply it.
DirHints(e) == {e.d_type, DT_UNKNOWN}

\* snprintf(fullpath, pathlen, "%s/%s", path, entry->d_name)
FullPath(path, name) == path \o Slash \o name

DirFrame(path) == [path |-> path, dir |-> 0, todo |-> {}, st |-> "open"]

\* main of the readdir variant, `char* path = strdup(*(argv + i))` to the
\* call of walkdir.
DirMainArg ==
  /\ pc = "args" /\ argi <= Len(args)
  /\ pathbuf' = StripSlash(Append(args[argi], NUL))
  /\ stack' = <<DirFrame(StrAt(pathbuf', 0))>>
  /\ pc' = "walk"
  /\ UNCHANGED <<inputs, argi, mainfd, status, ret, fdtab, errno, out, errs, queries,
                 denied, fatal, nfaults>>

\* walkdir, `DIR* dir = opendir(path); if(!dir) ...`
DirOpen ==
  /\ pc = "walk" /\ stack # <<>> /\ Top.st = "open"
  /\ \E o \in OpenOutcomes(Top.path) :
       /\ Opened(o, Top.path)
       /\ IF o.fd = -1
          THEN IF o.err = EACCES
               THEN /\ errs' = Append(errs, [kind |-> "denied", path |-> Top.path])
                    /\ errno' = 0
                    /\ Return(0)
               ELSE /\ errs' = Append(errs, [kind |-> "open", path |-> Top.path])
                    /\ errno' = OpenErrno(o)
                    /\ Return(-1)
          ELSE /\ SetTop([Top EXCEPT !.dir = o.fd, !.todo = Entries(Canon(Top.path)),
                                     !.st = "read"])
               /\ UNCHANGED <<errs, errno, ret>>
  /\ UNCHANGED <<inputs, argi, pc, pathbuf, mainfd, status, out, queries>>

\* printdir: the callback of walkdir.
PrintDir(filepath, node) ==
  /\ queries' = Append(queries, [walk |-> argi, node |-> node, str |-> Tail(filepath)])
  /\ out' = IF IsUntracked(hs, Tail(filepath))
            THEN Append(out, [walk |-> argi, node |-> node, line |-> filepath])
            ELSE out

\* walkdir, one call of readdir and the body of the loop for the entry it
\* returns, or what follows the loop when it returns NULL.
DirEntry ==
  /\ pc = "walk" /\ stack # <<>> /\ Top.st = "read"
  /\ \/ /\ nfaults < MaxFaults
        /\ nfaults' = nfaults + 1
        /\ errno' = EIO
        /\ fatal' = Append(fatal, FatalRec("read", fdtab[Top.dir]))
        /\ Return(-1)
        /\ UNCHANGED <<fdtab, out, errs, queries>>
     \/ /\ Top.todo = {}
        /\ IF errno # 0
           THEN Return(-1) /\ UNCHANGED fdtab
           ELSE fdtab' = CloseTab(Top.dir) /\ Return(0)
        /\ UNCHANGED <<errno, nfaults, fatal, out, errs, queries>>
     \/ \E e \in NextEntries(Top.todo) : \E hint \in DirHints(e) :
        \E sb \in IF hint = DT_UNKNOWN THEN LstatOutcomes(e) ELSE {[st_mode |-> 0, err |-> 0]} :
          LET fullpath == FullPath(Top.path, e.d_name)
              node == Join(fdtab[Top.dir], e.d_name)
              type == IF hint = DT_UNKNOWN THEN ToUChar(GetFileType(sb)) ELSE hint
              cont == [Top EXCEPT !.todo = Remaining(Top.todo, e)]
          IN
          /\ errno' = IF sb.err # 0 THEN sb.err ELSE errno
          /\ fatal' = IF sb.err # 0 THEN Append(fatal, FatalRec("lstat", node))
                      ELSE IF type = DT_UNKNOWN THEN Append(fatal, FatalRec("unknown", node))
                      ELSE fatal
          /\ IF type = DT_UNKNOWN
             THEN /\ errs' = Append(errs, [kind |-> "unknown", path |-> fullpath])
                  /\ Return(-1)
                  /\ UNCHANGED <<out, queries>>
             ELSE IF type = DT_DIR
             THEN IF IsDotEntry(e.d_name)
                  THEN SetTop(cont) /\ UNCHANGED <<out, errs, queries, ret>>
                  ELSE /\ stack' = Append([stack EXCEPT ![Len(stack)] =
                                             [cont EXCEPT !.st = "ret"]],
                                          DirFrame(fullpath))
                       /\ UNCHANGED <<out, errs, queries, ret>>
             ELSE IF IsReportable(type, Symlinks)
             THEN PrintDir(fullpath, node) /\ SetTop(cont) /\ UNCHANGED <<errs, ret>>
             ELSE SetTop(cont) /\ UNCHANGED <<out, errs, queries, ret>>
          /\ UNCHANGED <<fdtab, nfaults>>
  /\ UNCHANGED <<inputs, argi, pc, pathbuf, mainfd, status, denied>>

\* walkdir, `if (wd_err) return wd_err;` after the recursive call.
DirReturn ==
  /\ pc = "walk" /\ stack # <<>> /\ Top.st = "ret"
  /\ IF ret # 0
     THEN Return(ret)
     ELSE SetTop([Top EXCEPT !.st = "read"]) /\ UNCHANGED ret
  /\ UNCHANGED <<inputs, argi, pc, pathbuf, mainfd, status, fdtab, errno, out, errs,
                 queries, denied, fatal, nfaults>>

\* main of the readdir variant, `if (rd_error) { ... exit(EXIT_FAILURE); }
\* free(path);`
DirMainRet ==
  /\ pc = "walk" /\ stack = <<>>
  /\ IF ret # 0
     THEN /\ errs' = IF errno # 0 THEN Append(errs, [kind |-> "errno", path |-> <<>>]) ELSE errs
          /\ status' = EXIT_FAILURE
          /\ pc' = "done"
          /\ UNCHANGED argi
     ELSE /\ argi' = argi + 1
          /\ pc' = "args"
          /\ UNCHANGED <<errs, status>>
  /\ UNCHANGED <<inputs, pathbuf, mainfd, stack, ret, fdtab, errno, out, queries,
                 denied, fatal, nfaults>>

NextDir ==
  \/ DirMainArg
  \/ DirOpen
  \/ DirEntry
  \/ DirReturn
  \/ DirMainRet
  \/ MainDone

\* ------------------------------------------ walkdir (the openat variant)

\* An activation of walkdir(fd, fullpath, root_len, path_offset, dir_offset,
\* ...); dirfd is the descriptor it opens.
AtFrame(fd, path_offset, dir_offset) ==
  [fd |-> fd, path_offset |-> path_offset, dir_offset |-> dir_offset, dirfd |-> -1,
   buf |-> {}, eof |-> FALSE, st |-> "open"]

\* The directory openat(fd, name, ...) names: name itself when it is absolute,
\* else name in the directory fd is open on.
AtPath(fd, name) ==
  IF name # <<>> /\ name[1] = "/" THEN name ELSE Join(fdtab[fd], name)

\* main of the openat variant, `char* path = malloc(PATH_MAX)` to the call of
\* walkdir.
AtMainArg ==
  /\ pc = "args" /\ argi <= Len(args)
  /\ pathbuf' = StripSlash(StrCpy(Malloc, 0, args[argi]))
  /\ stack' = <<AtFrame(0, StrLen(pathbuf', 0), 0)>>
  /\ pc' = "walk"
  /\ UNCHANGED <<inputs, argi, mainfd, status, ret, fdtab, errno, out, errs, queries,
                 denied, fatal, nfaults>>

\* walkdir, `int dirfd = openat(fd, fullpath + dir_offset, ...); if(dirfd ==
\* -1) ...`
AtOpen ==
  /\ pc = "walk" /\ stack # <<>> /\ Top.st = "open"
  /\ LET p == AtPath(Top.fd, StrAt(pathbuf, Top.dir_offset))
     IN  \E o \in OpenOutcomes(p) :
           /\ Opened(o, p)
           /\ IF o.fd = -1
              THEN IF o.err = EACCES
                   THEN /\ errs' = IF ~silent
                                   THEN Append(errs, [kind |-> "denied",
                                                      path |-> StrAt(pathbuf, 0)])
                                   ELSE errs
                        /\ errno' = 0
                        /\ Return(0)
                   ELSE /\ errs' = Append(errs, [kind |-> "open", path |-> StrAt(pathbuf, 0)])
                        /\ errno' = OpenErrno(o)
                        /\ Return(-1)
              ELSE /\ SetTop([Top EXCEPT !.dirfd = o.fd, !.st = "getdents"])
                   /\ UNCHANGED <<errs, errno, ret>>
  /\ UNCHANGED <<inputs, argi, pc, pathbuf, mainfd, status, out, queries>>

\* walkdir, `nread = syscall(SYS_getdents, dirfd, buf, 8192)`, the two tests
\* of nread and, after the last call, `if (errno) return -1; close(dirfd);
\* return 0;`
AtGetdents ==
  /\ pc = "walk" /\ stack # <<>> /\ Top.st = "getdents"
  /\ \/ /\ nfaults < MaxFaults
        /\ nfaults' = nfaults + 1
        /\ errno' = EIO
        /\ errs' = Append(errs, [kind |-> "read", path |-> <<>>])
        /\ fatal' = Append(fatal, FatalRec("read", fdtab[Top.dirfd]))
        /\ Return(-1)
        /\ UNCHANGED fdtab
     \/ /\ Top.eof
        /\ IF errno # 0
           THEN Return(-1) /\ UNCHANGED <<fdtab, errno>>
           ELSE /\ fdtab' = CloseTab(Top.dirfd)
                /\ errno' = CloseErrno(Top.dirfd)
                /\ Return(0)
        /\ UNCHANGED <<nfaults, errs, fatal>>
     \/ /\ ~Top.eof
        /\ SetTop([Top EXCEPT !.buf = Entries(fdtab[Top.dirfd]), !.eof = TRUE, !.st = "loop"])
        /\ UNCHANGED <<nfaults, errno, errs, fatal, ret, fdtab>>
  /\ UNCHANGED <<inputs, argi, pc, pathbuf, mainfd, status, out, queries, denied>>

\* walkdir, one turn of `for (long bpos = 0; bpos < nread;)`.
AtEntry ==
  /\ pc = "walk" /\ stack # <<>> /\ Top.st = "loop"
  /\ \E e \in NextEntries(Top.buf) : \E type \in DTypes(e) :
       LET buf1 == AppendName(pathbuf, Top.path_offset, e.d_name)
           node == Join(fdtab[Top.dirfd], e.d_name)
           rest == Remaining(Top.buf, e)
           cont == [Top EXCEPT !.buf = rest, !.st = IF rest = {} THEN "getdents" ELSE "loop"]
       IN
       /\ pathbuf' = buf1
       /\ IF type = DT_UNKNOWN
          THEN /\ errs' = Append(errs, [kind |-> "unknown", path |-> StrAt(buf1, 0)])
               /\ fatal' = Append(fatal, FatalRec("unknown", node))
               /\ nfaults' = nfaults + 1
               /\ Return(-1)
               /\ UNCHANGED <<out, queries>>
          ELSE IF type = DT_DIR
          THEN IF IsDotEntry(e.d_name)
               THEN /\ SetTop(cont)
                    /\ UNCHANGED <<out, errs, queries, fatal, nfaults, ret>>
               ELSE /\ stack' = Append([stack EXCEPT ![Len(stack)] = [cont EXCEPT !.st = "ret"]],
                                       AtFrame(Top.dirfd, Top.path_offset + Len(e.d_name) + 1,
                                               Top.path_offset + 1))
                    /\ UNCHANGED <<out, errs, queries, fatal, nfaults, ret>>
          ELSE IF IsReportable(type, Symlinks)
          THEN /\ queries' = Append(queries, [walk |-> argi, node |-> node,
                                              str |-> StrAt(buf1, Len(root))])
               /\ out' = IF IsUntracked(hs, StrAt(buf1, Len(root)))
                         THEN Append(out, [walk |-> argi, node |-> node, line |-> StrAt(buf1, 0)])
                         ELSE out
               /\ SetTop(cont)
               /\ UNCHANGED <<errs, fatal, nfaults, ret>>
          ELSE /\ SetTop(cont)
               /\ UNCHANGED <<out, errs, queries, fatal, nfaults, ret>>
  /\ UNCHANGED <<inputs, argi, pc, mainfd, status, fdtab, errno, denied>>

\* walkdir, `if (wd_err) return wd_err;` after the recursive call.
AtReturn ==
  /\ pc = "walk" /\ stack # <<>> /\ Top.st = "ret"
  /\ IF ret # 0
     THEN Return(ret)
     ELSE SetTop([Top EXCEPT !.st = IF Top.buf = {} THEN "getdents" ELSE "loop"])
            /\ UNCHANGED ret
  /\ UNCHANGED <<inputs, argi, pc, pathbuf, mainfd, status, fdtab, errno, out, errs,
                 queries, denied, fatal, nfaults>>

\* main of the openat variant, `if (walkerr) { ... exit(EXIT_FAILURE); }
\* free(path);`
AtMainRet ==
  /\ pc = "walk" /\ stack = <<>>
  /\ IF ret # 0
     THEN /\ errs' = IF errno # 0 THEN Append(errs, [kind |-> "errno", path |-> <<>>]) ELSE errs
          /\ status' = EXIT_FAILURE
          /\ pc' = "done"
          /\ UNCHANGED argi
     ELSE /\ argi' = argi + 1
          /\ pc' = "args"
          /\ UNCHANGED <<errs, status>>
  /\ UNCHANGED <<inputs, pathbuf, mainfd, stack, ret, fdtab, errno, out, queries,
                 denied, fatal, nfaults>>

NextAt ==
  \/ AtMainArg
  \/ AtOpen
  \/ AtGetdents
  \/ AtEntry
  \/ AtReturn
  \/ AtMainRet
  \/ MainDone

\* ----------------------------------------------------------- initial states

\* The name the package database has for the file p below the installation
\* root r: the path relative to r, without a leading separator.
IndexName(p, r) ==
  IF Canon(r) = Slash THEN SubSeq(p, 2, Len(p)) ELSE SubSeq(p, Len(Canon(r)) + 2, Len(p))

\* The files of f a package installed below r can own.
Trackable(f, r) == {p \in DOMAIN f : f[p] \in {DT_REG, DT_LNK} /\ IsUnder(p, Canon(r))}

\* The elements of S in a sequence.
SetToSeq(S) ==
  CHOOSE s \in [1 .. Cardinality(S) -> S] : \A x \in S : \E i \in DOMAIN s : s[i] = x

\* The options that give main the root r and the flags n and q.
OptionsFor(r, n, q) ==
  (IF r = Slash THEN <<>> ELSE <<Option("r", r)>>)
    \o (IF n THEN <<Flag("n")>> ELSE <<>>)
    \o (IF q THEN <<Flag("q")>> ELSE <<>>)

\* main up to the loop over the search paths: the options are parsed, and
\* the index holds the name of every file of every installed package.
InitWith(Roots, ArgLists, Silents, FileSystems, Budget) ==
  /\ root \in Roots
  /\ args \in ArgLists
  /\ nosymlinks \in BOOLEAN
  /\ silent \in Silents
  /\ fs \in FileSystems
  /\ \E T \in SUBSET Trackable(fs, root) : hs = {IndexName(p, root) : p \in T}
  /\ optv = OptionsFor(root, nosymlinks, silent)
  /\ localdb = <<SetToSeq(hs)>>
  /\ argi = 1
  /\ pc = "args"
  /\ pathbuf = <<>>
  /\ mainfd = -1
  /\ status = -1
  /\ stack = <<>>
  /\ ret = 0
  /\ fdtab = <<>>
  /\ errno = 0
  /\ out = <<>>
  /\ errs = <<>>
  /\ queries = <<>>
  /\ denied = {}
  /\ fatal = <<>>
  /\ nfaults = MaxFaults - Budget

PathR == <<"/", "r">>
PathRSlash == <<"/", "r", "/">>
PathRBB == <<"/", "r", "/", "b", "b">>

\* The default installation root and two search paths, the second one below
\* the first.
Init ==
  InitWith({Slash}, {<<PathRSlash, PathRBB>>}, BOOLEAN,
           Trees \cup {DeepTree, WideTree, DeviceTree}, MaxFaults)

Spec == Init /\ [][Next]_vars

\* The installation root given with and without a trailing separator, a
\* search path that is the root and one below it; no system call fails.
InitRoot ==
  InitWith({Slash, PathR, PathRSlash}, {<<PathR>>, <<PathRBB>>}, {FALSE},
           Trees \cup {DeepTree}, 0)

SpecRoot == InitRoot /\ [][Next]_vars

\* The readdir variant with the default root and one search path; at most one
\* opendir or readdir fails.
InitDir == InitWith({Slash}, {<<PathRSlash>>}, {FALSE}, Trees, 1)

SpecDir == InitDir /\ [][NextDir]_vars

\* Two search paths, the second a directory between two files of the first;
\* no system call fails.
InitOrder ==
  InitWith({Slash}, {<<PathRSlash, PathRBB>>}, {FALSE}, {OrderTree, WideTree, DeepTree}, 0)

SpecOrder == InitOrder /\ [][Next]_vars

PathRSlashSlash == <<"/", "r", "/", "/">>

\* One search path, written with one or with two trailing separators; no
\* system call fails.
InitSlash == InitWith({Slash}, {<<PathRSlash>>, <<PathRSlashSlash>>}, {FALSE}, Trees, 0)

SpecSlash == InitSlash /\ [][Next]_vars

\* The openat variant with the default root and one search path; at most one
\* openat or getdents fails, or one entry comes without a type.
InitAt == InitWith({Slash}, {<<PathRSlash>>}, BOOLEAN, Trees \cup {DeepTree}, 1)

SpecAt == InitAt /\ [][NextAt]_vars

\* The directory k levels below /r in a chain of directories named bb.
RECURSIVE Chain(_)
Chain(k) == IF k = 0 THEN DirR ELSE Join(Chain(k - 1), <<"b", "b">>)

\* A chain of directories whose last path is longer than the buffer, with a
\* file at its end.
LongTree ==
  LET depth == PATH_MAX \div 3
  IN  [p \in {Chain(k) : k \in 1 .. depth} |-> DT_DIR]
        @@ (Join(Chain(depth), <<"a">>) :> DT_REG)
        @@ BaseFs

\* The default root and the search path /r/ over a long chain of
\* directories or a short tree; at most one system call fails.
InitLong == InitWith({Slash}, {<<PathRSlash>>}, BOOLEAN, {LongTree, DeepTree}, 1)

SpecLong == InitLong /\ [][NextLong]_vars

\* The default root, and a search path that is /r or the link to it two
\* levels down, over a tree with such links or a tree without; at most one
\* system call fails.  The process runs until it exits: a step that can be
\* taken is taken.
InitFair ==
  InitWith({Slash}, {<<PathRSlash>>, <<LoopLink>>}, BOOLEAN, {LoopTree, DeepTree}, 1)

SpecFair == InitFair /\ [][Next]_vars /\ WF_vars(Next)

PathRB == <<"/", "r", "b">>
PathX == <<"/", "x">>

\* The trees with a directory /rb, holding one file, beside the directory /r.
SiblingTrees ==
  {(PathRB :> DT_DIR) @@ (Join(PathRB, <<"a">>) :> DT_REG) @@ t : t \in Trees}

\* The root / or /r, and a search path that is the root, that is /r, that is
\* its sibling /rb, or that does not exist; no system call fails.
InitCheck ==
  InitWith({Slash, PathR}, {<<Slash>>, <<PathR>>, <<PathRB>>, <<PathX>>}, {FALSE},
           SiblingTrees, 0)

SpecCheck == InitCheck /\ [][Next]_vars

\* The package databases for the file system f: a set of trackable files
\* owned by one package, or each of them owned by two packages.
Databases(f) ==
  UNION {{<<SetToSeq(N)>>, <<SetToSeq(N), SetToSeq(N)>>} :
           N \in {{IndexName(p, Slash) : p \in T} : T \in SUBSET Trackable(f, Slash)}}

\* The command lines: no option, each option alone, and two options.
OptionLists ==
  {<<>>, <<Flag("n")>>, <<Flag("q")>>, <<Flag("h")>>, <<Flag("s")>>, <<Option("r", Slash)>>,
   <<Option("d", PathR)>>, <<Flag("n"), Flag("q")>>, <<Flag("q"), Flag("s")>>}

\* main from its first line: the command line, the package database and the
\* file system; no system call fails.
InitMain ==
  /\ optv \in OptionLists
  /\ args \in {<<>>, <<PathRSlash>>}
  /\ fs \in {DeepTree, WideTree, OrderTree, DeviceTree}
  /\ localdb \in Databases(fs)
  /\ root = Slash
  /\ nosymlinks = FALSE
  /\ silent = FALSE
  /\ hs = {}
  /\ argi = 1
  /\ pc = "getopt"
  /\ pathbuf = <<>>
  /\ mainfd = -1
  /\ status = -1
  /\ stack = <<>>
  /\ ret = 0
  /\ fdtab = <<>>
  /\ errno \in {0, ENOENT}
  /\ out = <<>>
  /\ errs = <<>>
  /\ queries = <<>>
  /\ denied = {}
  /\ fatal = <<>>
  /\ nfaults = MaxFaults

SpecMain == InitMain /\ [][NextMain]_vars

\* -------------------------------------------------- properties of the walk

\* The directory the i-th search path names.
SearchDir(i) == Canon(args[i])

\* The walk of the i-th search path has returned success.
WalkDone(i) == argi > i \/ (argi = i /\ pc = "walk" /\ stack = <<>> /\ ret = 0)

\* The i-th walk can reach f: f lies below the search path and not in a
\* directory that refused to open in that walk.
Reached(i, f) ==
  /\ IsUnder(f, SearchDir(i))
  /\ \A d \in denied : d.walk = i => f # d.node /\ ~IsUnder(f, d.node)

Files(i) == {f \in DOMAIN fs : Reached(i, f)}

QueriesOf(i, f) == {k \in 1 .. Len(queries) : queries[k].walk = i /\ queries[k].node = f}

LinesOf(i, f) == {k \in 1 .. Len(out) : out[k].walk = i /\ out[k].node = f}

\* The relative path walkfd has for f in the i-th walk: the rel_path main
\* passes for the search path, and the names from there down to f.
RelPath(i, f) ==
  LET path == StrAt(StripSlash(StrCpy(Malloc, 0, args[i])), 0)
  IN  SubSeq(path, Len(root) + 1, Len(path)) \o SubSeq(f, Len(SearchDir(i)) + 1, Len(f))

NoTrailingSeparator(r) == r[Len(r)] # "/"

NumOpen == Cardinality(DOMAIN fdtab)

\* C1: when the program has walked every search path and exits with success,
\* a regular file the walk can reach has its path written to standard output
\* if and only if its path relative to the installation root is not in the
\* index, and the line written is the file's full path.
C1_ReportedIffUntracked ==
  pc = "done" /\ status = EXIT_SUCCESS =>
    \A i \in 1 .. Len(args) : \A f \in Files(i) :
      fs[f] = DT_REG =>
        /\ (LinesOf(i, f) # {}) <=> (IndexName(f, root) \notin hs)
        /\ \A k \in LinesOf(i, f) : out[k].line = f

\* C2: with an installation root that does not end in a separator, every
\* membership query is made with the name the index has for the file (the
\* path relative to the root, without a leading separator), so that a file
\* of the index is never written and a line written is the file's full path.
C2_QueryInIndexForm ==
  NoTrailingSeparator(root) =>
    /\ \A k \in 1 .. Len(queries) : queries[k].str = IndexName(queries[k].node, root)
    /\ \A k \in 1 .. Len(out) :
         IndexName(out[k].node, root) \notin hs /\ out[k].line = out[k].node

\* C3: in one walk no file is looked up in the index more than once, only
\* regular files (and symbolic links when they are enabled) are looked up,
\* and when the walk has returned success every such file it can reach has
\* been looked up exactly once.
C3_OneQueryPerFile ==
  \A i \in 1 .. Len(args) : \A f \in DOMAIN fs :
    LET wanted == fs[f] = DT_REG \/ (fs[f] = DT_LNK /\ ~nosymlinks)
    IN  /\ Cardinality(QueriesOf(i, f)) <= 1
        /\ QueriesOf(i, f) # {} => wanted
        /\ WalkDone(i) /\ Reached(i, f) /\ wanted => Cardinality(QueriesOf(i, f)) = 1

\* A walk with symbolic links enabled ended with success after it looked up a
\* regular file and a symbolic link and was refused a directory.
C3_Witness ==
  /\ pc = "done" /\ status = EXIT_SUCCESS /\ ~nosymlinks /\ denied # {}
  /\ \E j, k \in 1 .. Len(queries) :
       /\ queries[j].walk = queries[k].walk
       /\ fs[queries[j].node] = DT_REG
       /\ fs[queries[k].node] = DT_LNK

C5_DeniedSubtreeSkipped ==
  /\ \A d \in denied :
       /\ \A k \in 1 .. Len(out) : out[k].walk = d.walk => ~IsUnder(out[k].node, d.node)
       /\ \A k \in 1 .. Len(queries) :
            queries[k].walk = d.walk => ~IsUnder(queries[k].node, d.node)
       /\ \A k \in 1 .. Len(fatal) : fatal[k].node # d.node \/ fatal[k].walk # d.walk
  /\ pc = "done" /\ fatal = <<>> =>
       /\ status = EXIT_SUCCESS
       /\ \A i \in 1 .. Len(args) : \A f \in Files(i) :
            fs[f] = DT_REG \/ (fs[f] = DT_LNK /\ ~nosymlinks) => QueriesOf(i, f) # {}

\* The first walk was refused a directory that holds a regular file, looked
\* up a file of a sibling enumerated after it, and the second search path was
\* walked too; the program exited with success.
C5_Witness ==
  /\ pc = "done" /\ status = EXIT_SUCCESS
  /\ \E d \in denied :
       /\ d.walk = 1 /\ d.node # SearchDir(1)
       /\ \E f \in DOMAIN fs : IsUnder(f, d.node) /\ fs[f] = DT_REG
       /\ \E k \in 1 .. Len(queries) : k > d.at /\ queries[k].walk = 1
       /\ \E k \in 1 .. Len(queries) : queries[k].walk = 2

\* C6: once an open has failed for a reason other than EACCES, or reading
\* the entries of a directory has failed, the activation of walkfd for that
\* directory and every activation above it return an error (from the moment
\* the activation that was handed the failed descriptor has looked at it),
\* main handles no further search path, and the process exits with
\* EXIT_FAILURE.
C6_FatalFailureFails ==
  \A k \in 1 .. Len(fatal) : fatal[k].kind \in {"open", "read"} =>
    /\ ret = -1 \/ (stack # <<>> /\ Top.st = "entry" /\ Top.fd = -1)
    /\ argi = fatal[k].walk
    /\ pc \in {"walk", "done"}
    /\ pc = "done" => status = EXIT_FAILURE

\* Reading a directory below the search path failed after a line had been
\* written, and the process has exited with failure.
C6_Witness ==
  /\ pc = "done" /\ status = EXIT_FAILURE /\ out # <<>>
  /\ Len(fatal) = 1 /\ fatal[1].kind = "read"
  /\ IsUnder(fatal[1].node, SearchDir(fatal[1].walk))

\* C7: an entry whose d_type is DT_UNKNOWN is handled as the type lstat
\* reports for it.  Every file of the model has a type lstat knows, so no
\* walk ends because the type of an entry is unknown.
C7_UnknownHintResolved ==
  \A k \in 1 .. Len(fatal) : fatal[k].kind # "unknown"

\* C8: when lstat fails for an entry whose d_type is DT_UNKNOWN, the walk is
\* aborted at once: the activation of walkdir that met the entry returns an
\* error in that step and every activation above it does, no entry is looked
\* up afterwards, and the process does not exit with success.
C8_FallbackFailureAborts ==
  \A k \in 1 .. Len(fatal) : fatal[k].kind = "lstat" =>
    /\ ret = -1 /\ Len(stack) < fatal[k].depth
    /\ Len(queries) = fatal[k].at
    /\ pc = "done" => status = EXIT_FAILURE

\* C9: every open descriptor is the directory of an activation of walkfd that
\* has not returned, or the one main holds during the walk, or the descriptor
\* of the subdirectory whose walk has just returned to an opener that closes
\* it as its next step; between two search paths and at exit, whether the
\* walk succeeded or failed, no descriptor is open.
C9_DescriptorsReleased ==
  LET level == {stack[k].fd : k \in 1 .. Len(stack)}
      held == IF pc = "walk" THEN {mainfd} ELSE {}
      closing == IF stack # <<>> /\ Top.st = "close" THEN {Top.nextfd} ELSE {}
  IN  /\ DOMAIN fdtab \subseteq level \cup held \cup closing
      /\ pc # "walk" => DOMAIN fdtab = {}

\* A walk failed two levels below the search path, and the process has
\* exited with every descriptor closed.
C9_Witness ==
  /\ pc = "done" /\ status = EXIT_FAILURE /\ fdtab = <<>>
  /\ \E k \in 1 .. Len(fatal) :
       /\ fatal[k].kind \in {"open", "read"}
       /\ IsUnder(Parent(fatal[k].node), SearchDir(fatal[k].walk))

\* C10, as stated: while walkfd is active the number of open descriptors is
\* at most the depth of the directory being enumerated (the search path has
\* depth 1).
C10_OpenAtMostDepth ==
  stack # <<>> => NumOpen <= Len(stack)

\* C10, amended: the number of open descriptors is at most the depth of the
\* directory being enumerated while its entries are read, and at most one
\* more in the step between the return of a subdirectory's walk and the
\* close of its descriptor; it does not grow with the number of siblings.
C10_OpenAtMostDepthPlusClosing ==
  stack # <<>> => NumOpen <= Len(stack) + (IF Top.st = "close" THEN 1 ELSE 0)

\* The walk of the second of two sibling directories has returned and its
\* descriptor is still open: two descriptors at depth 1.
C10_Witness ==
  /\ fs = WideTree /\ Len(stack) = 1 /\ Top.st = "close" /\ Top.buf = {}
  /\ NumOpen = 2

\* C11: after a fatal failure no activation of walkfd is started that was
\* not already being entered, every activation that has seen the failure
\* returns -1, no entry is looked up and no line is written: the queries and
\* the output stay as they were when the failure happened.
C11_FirstErrorWins ==
  \A k \in 1 .. Len(fatal) :
    /\ Len(queries) = fatal[k].at
    /\ Len(out) = fatal[k].outs
    /\ Len(stack) <= fatal[k].depth + (IF fatal[k].kind = "open" THEN 1 ELSE 0)
    /\ ret = -1 \/ (stack # <<>> /\ Top.st = "entry" /\ Top.fd = -1)

\* A walk failed below the search path after it had written a line and before
\* it had looked up a file it could reach, and the process has exited.
C11_Witness ==
  /\ pc = "done" /\ Len(fatal) = 1 /\ fatal[1].outs > 0
  /\ IsUnder(fatal[1].node, SearchDir(fatal[1].walk))
  /\ \E f \in Files(fatal[1].walk) :
       /\ fs[f] = DT_REG
       /\ QueriesOf(fatal[1].walk, f) = {}

\* C12: when the walk of search path i fails, the process exits with a
\* non-zero status at that point: i stays the current search path, nothing is
\* opened, looked up or written for a later one, and the output is what had
\* been written when the failure happened.
C12_MultiRootAbort ==
  \A k \in 1 .. Len(fatal) :
    LET i == fatal[k].walk
    IN  /\ argi = i
        /\ pc \in {"walk", "done"}
        /\ pc = "done" => status = EXIT_FAILURE /\ status # 0
        /\ \A j \in 1 .. Len(out) : out[j].walk <= i
        /\ \A j \in 1 .. Len(queries) : queries[j].walk <= i
        /\ Len(out) = fatal[k].outs

\* The walk of the first of two search paths failed after it had written a
\* line; the process has exited and the second one was never walked.
C12_Witness ==
  /\ pc = "done" /\ status = EXIT_FAILURE /\ Len(args) = 2
  /\ Len(fatal) = 1 /\ fatal[1].walk = 1 /\ fatal[1].outs > 0
  /\ SearchDir(2) \in DOMAIN fs /\ fs[SearchDir(2)] = DT_DIR

\* The lines of seq (queries or output) of walk i for files below D follow
\* one another.
Contiguous(seq, i, D) ==
  \A a, b, c \in 1 .. Len(seq) :
    /\ a < b /\ b < c
    /\ seq[a].walk = i /\ IsUnder(seq[a].node, D)
    /\ seq[c].walk = i /\ IsUnder(seq[c].node, D)
    => seq[b].walk = i /\ IsUnder(seq[b].node, D)

\* The queries whose path is not in the index, in the order they were made.
UntrackedQueries == SelectSeq(queries, LAMBDA q : q.str \notin hs)

\* C13: the output follows the search paths in argument order; the lines are
\* those of the files looked up and not found, in the order the files were
\* enumerated; and for every directory D the files below D are enumerated,
\* and their lines written, one after the other without a line of a file
\* outside D in between (so they lie between the line of an entry enumerated
\* before D and the line of one enumerated after it).
C13_OutputOrder ==
  /\ \A j, k \in 1 .. Len(out) : j < k => out[j].walk <= out[k].walk
  /\ Len(out) = Len(UntrackedQueries)
  /\ \A k \in 1 .. Len(out) :
       out[k].walk = UntrackedQueries[k].walk /\ out[k].node = UntrackedQueries[k].node
  /\ \A i \in 1 .. Len(args) : \A D \in DOMAIN fs :
       fs[D] = DT_DIR => Contiguous(queries, i, D) /\ Contiguous(out, i, D)

\* The directory /r/bb was enumerated between the files /r/a and /r/c: the
\* four lines of the first walk have the two of /r/bb in the middle, and the
\* two lines of the second walk follow.
C13_Witness ==
  /\ pc = "done" /\ status = EXIT_SUCCESS /\ fs = OrderTree /\ Len(out) = 6
  /\ ~IsUnder(out[1].node, PathRBB) /\ IsUnder(out[2].node, PathRBB)
  /\ IsUnder(out[3].node, PathRBB) /\ ~IsUnder(out[4].node, PathRBB)
  /\ out[5].walk = 2

\* C14: every string walkfd looks up is the relative path main passed for
\* the search path followed by the names of the directories down to the entry
\* and the name of the entry, each after one '/', whatever was written to the
\* buffer before; it holds no NUL and no byte that was never written.
C14_PathByteIdentity ==
  \A k \in 1 .. Len(queries) :
    /\ queries[k].str = RelPath(queries[k].walk, queries[k].node)
    /\ \A n \in 1 .. Len(queries[k].str) : queries[k].str[n] \notin {NUL, Junk}

\* The file /r/a was looked up after the walk of its sibling /r/bb had
\* written the longer path of /r/bb/a/a to the buffer and returned.
C14_Witness ==
  /\ fs = DeepTree
  /\ \E j, k \in 1 .. Len(queries) :
       /\ j < k /\ queries[j].walk = 1 /\ queries[k].walk = 1
       /\ queries[j].node = <<"/", "r", "/", "b", "b", "/", "a", "/", "a">>
       /\ queries[k].node = <<"/", "r", "/", "a">>
       /\ queries[k].str = <<"r", "/", "a">>

\* The i-th search path passes main's sanity check and names a directory.
WalkOk(i) ==
  /\ InRoot(root, StrAt(StripSlash(StrCpy(Malloc, 0, args[i])), 0))
  /\ SearchDir(i) \in DOMAIN fs
  /\ fs[SearchDir(i)] = DT_DIR

\* What a run in which no system call fails has to write, as a function of
\* the arguments, the options, the file system and the index alone: for each
\* search path up to the first that cannot be walked, the files below it that
\* are regular (or symbolic links, when enabled) and whose relative path is
\* not in the index.
ExpectedOutput ==
  {<<i, f>> \in (1 .. Len(args)) \X DOMAIN fs :
     /\ \A j \in 1 .. i : WalkOk(j)
     /\ IsUnder(f, SearchDir(i))
     /\ fs[f] = DT_REG \/ (fs[f] = DT_LNK /\ ~nosymlinks)
     /\ RelPath(i, f) \notin hs}

ExpectedStatus == IF \A i \in 1 .. Len(args) : WalkOk(i) THEN EXIT_SUCCESS ELSE EXIT_FAILURE

Settled == ~(stack # <<>> /\ Top.st = "entry" /\ Top.fd = -1)

\* The diagnostics of the given kinds on standard error.
Diagnostics(kinds) == SelectSeq(errs, LAMBDA m : m.kind \in kinds)

\* C16: the option -q changes the error stream only.  With it no
\* permission-denied diagnostic is written; without it each directory that
\* refused to open has one, naming its full path.  In both cases each fatal
\* failure has its diagnostic, the lines written are those of the lookups
\* that failed, and the exit status, and the lines of a run without a fatal
\* failure, are given by the directories that refused to open, the file
\* system and the index - not by the option.
C16_SilentFlag ==
  /\ Settled =>
       /\ silent => Diagnostics({"denied"}) = <<>>
       /\ ~silent =>
            /\ Len(Diagnostics({"denied"})) = Cardinality(denied)
            /\ \A d \in denied : \E k \in 1 .. Len(errs) :
                 errs[k] = [kind |-> "denied", path |-> d.node]
       /\ Len(Diagnostics({"open", "read", "unknown"})) = Len(fatal)
  /\ Len(out) = Len(UntrackedQueries)
  /\ \A k \in 1 .. Len(out) : out[k].line = root \o UntrackedQueries[k].str
  /\ pc = "done" =>
       /\ status = IF fatal = <<>> THEN EXIT_SUCCESS ELSE EXIT_FAILURE
       /\ fatal = <<>> =>
            {<<out[k].walk, out[k].node>> : k \in 1 .. Len(out)} =
              {<<i, f>> \in (1 .. Len(args)) \X DOMAIN fs :
                 /\ Reached(i, f)
                 /\ fs[f] = DT_REG \/ (fs[f] = DT_LNK /\ ~nosymlinks)
                 /\ RelPath(i, f) \notin hs}

\* With -q a directory refused to open, nothing was written to standard
\* error, lines were written to standard output and the process exited with
\* success.
C16_Witness ==
  /\ pc = "done" /\ status = EXIT_SUCCESS /\ silent
  /\ denied # {} /\ errs = <<>> /\ out # <<>>

\* The types walkfd has no use for.
OtherTypes == {DT_BLK, DT_CHR, DT_FIFO, DT_SOCK}

IsDotNode(n) == IsDotEntry(BaseName(n))

\* C18: the entries "." and ".." are skipped: none is looked up, printed or
\* opened, and no failure of the walk is the failure of one of them.
C18_DotsSkipped ==
  /\ \A k \in 1 .. Len(queries) : ~IsDotNode(queries[k].node)
  /\ \A k \in 1 .. Len(out) : ~IsDotNode(out[k].node)
  /\ \A fd \in DOMAIN fdtab : ~IsDotNode(fdtab[fd])
  /\ \A d \in denied : ~IsDotNode(d.node)
  /\ \A k \in 1 .. Len(fatal) : ~IsDotNode(fatal[k].node)

\* s has an empty segment: two separators in a row.
HasEmptySegment(s) == \E n \in 1 .. Len(s) - 1 : s[n] = "/" /\ s[n + 1] = "/"

\* C19: the path main opens and hands to walkfd does not end in '/', however
\* many separators the argument ends in, and no path that is looked up has
\* an empty segment.
C19_TrailingSeparatorsStripped ==
  /\ pc = "open" =>
       LET path == StrAt(pathbuf, 0)
       IN  path = <<>> \/ path[Len(path)] # "/"
  /\ \A k \in 1 .. Len(queries) : ~HasEmptySegment(queries[k].str)

\* C20: walkfd returns 0 or -1, -1 exactly when a failure has happened, and
\* from the return of -1 on errno is not 0.
C20_ErrnoSetOnError ==
  /\ ret \in {0, -1}
  /\ ret = -1 => fatal # <<>> /\ errno # 0
  /\ Settled /\ fatal # <<>> => ret = -1

\* ------------------------------------------------ properties of main's prologue

\* The command line holds the option c.
HasOption(c) == \E k \in 1 .. Len(optv) : optv[k].c = c

\* main has left through print_help and exit(EXIT_FAILURE).
Rejected == \E k \in 1 .. Len(errs) : errs[k].kind = "usage"

\* C21: a command line with the option -s (and without -h) and a search path
\* is not rejected as a usage error, and once the options are parsed symbolic
\* links are not looked up.
C21_SymlinkOptionAccepted ==
  HasOption("s") /\ ~HasOption("h") /\ args # <<>> /\ pc # "getopt" =>
    nosymlinks /\ ~Rejected /\ status # EXIT_FAILURE

\* The file names of the package database.
DbNames == UNION {{localdb[k][j] : j \in 1 .. Len(localdb[k])} : k \in 1 .. Len(localdb)}

\* C22: from the first search path on, the index holds exactly the file names
\* of the package database, a name owned by two packages once, and no step of
\* main's loop or of a walk changes it.
C22_IndexFrozen ==
  [][(pc \in {"args", "open", "walk"}) => (hs = DbNames /\ hs' = hs)]_vars

\* A walk has made a lookup in an index built from two packages that own the
\* same files.
C22_Witness ==
  /\ pc = "walk" /\ Len(stack) = 2
  /\ Len(localdb) = 2 /\ localdb[1] # <<>> /\ localdb[1] = localdb[2]
  /\ queries # <<>> /\ Len(out) < Len(queries)

\* -------------------------------------------- properties of the sanity check

\* The directory p is the directory r or lies below it.
InsideRoot(p, r) == Canon(p) = Canon(r) \/ IsUnder(Canon(p), Canon(r))

\* main has left through the sanity check.
NotInRoot == \E k \in 1 .. Len(errs) : errs[k].kind = "notinroot"

\* C23: main opens and walks a search path only if it is the installation
\* root or lies below it; for a search path that does not, main writes the
\* error, exits with failure, and has opened no directory.
C23_InsideRootCheck ==
  /\ pc \in {"open", "walk"} => InsideRoot(args[argi], root)
  /\ pc = "done" /\ argi <= Len(args) /\ ~InsideRoot(args[argi], root) =>
       NotInRoot /\ status = EXIT_FAILURE /\ fdtab = <<>> /\ queries = <<>>

\* C27: a search path that names the installation root itself is not turned
\* away by the sanity check: main does not end with the not-in-root error.
C27_RootItselfSearchable ==
  argi <= Len(args) /\ Canon(args[argi]) = Canon(root) /\ pc = "done" => ~NotInRoot

\* ------------------------------------------------ properties of the buffer

\* The number of bytes of the buffer that hold the path of the directory of
\* the k-th activation: the root and path_length bytes of alpm_path (before
\* path_length is set, the length of the string the activation was given).
PrefixLen(k) ==
  AlpmOff + (IF stack[k].st = "entry" THEN StrLen(pathbuf, AlpmOff) ELSE stack[k].path_length)

\* C24: no step, a return with or without error included, changes a byte of
\* the buffer in front of the offset where an activation on the stack appends:
\* the path of its directory stays as its ancestors wrote it.
C24_PrefixPreserved ==
  [][\A k \in 1 .. Len(stack) :
       SubSeq(pathbuf', 1, PrefixLen(k)) = SubSeq(pathbuf, 1, PrefixLen(k))]_vars

\* The walk of a subdirectory two levels down has returned an error to the
\* activation of the search path, with the path of a file still in the buffer.
C24_Witness ==
  /\ pc = "walk" /\ Len(stack) = 1 /\ Top.st = "close" /\ ret = -1
  /\ StrLen(pathbuf, 0) > PrefixLen(1) + 5

\* C26: the path in the buffer and its terminating NUL fit in the PATH_MAX
\* bytes main allocated, whatever the depth of the walk.
C26_PathFitsBuffer ==
  pc \in {"open", "walk"} => StrLen(pathbuf, 0) + 1 <= PATH_MAX /\ Len(pathbuf) = PATH_MAX

\* --------------------------------------- properties of the openat variant

\* C25: every call of walkdir that has returned has closed the descriptor it
\* opened: there are never more open descriptors than calls in progress.
C25_ClosedBeforeReturn == NumOpen <= Len(stack)

\* ------------------------------------------------- properties of termination

\* Every activation but the first walks a directory that is an entry of the
\* directory its caller walks.
DescendsByName ==
  \A k \in 2 .. Len(stack) :
    stack[k].fd # -1 => Parent(fdtab[stack[k].fd]) = fdtab[stack[k - 1].fd]

\* C28: every run ends: main exits with every call of walkfd returned; and no
\* call walks a directory reached through a symbolic link, so that the depth
\* of the recursion is bounded by the depth of the tree.
C28_WalkTerminates == <>(pc = "done" /\ stack = <<>>) /\ []DescendsByName

\* A walk started through the link two levels down has looked up both links
\* and the file and has ended with success.
C28_Witness ==
  /\ fs = LoopTree /\ args = <<LoopLink>>
  /\ pc = "done" /\ status = EXIT_SUCCESS
  /\ Len(queries) = 3

====
